---- MODULE Spec2Model ----
(***************************************************************************)
(* Model of blt-utils (src/src/lib.rs): a length-prefixed little-endian    *)
(* codec over one byte buffer (Vec<u8>).                                   *)
(*                                                                         *)
(* Bytes are the real bytes 0..255.  A machine integer of w bytes is a     *)
(* sequence of w/2 sixteen-bit limbs, least significant first, so that the *)
(* full 64-bit (and, on the caller's side, 128-bit) range is exact.  A     *)
(* String is a sequence of Unicode scalar values; its bytes are its UTF-8  *)
(* encoding.                                                               *)
(***************************************************************************)
EXTENDS Integers, Sequences, FiniteSets, TLC

VARIABLES buffer, last

vars == <<buffer, last>>

\* ------------------------------------------------------------------ bounds
\* The serializers and the finalizer are applied to buffers of at most this
\* many bytes; what they append is not bounded.
MaxPending == 4

\* ------------------------------------------------------------ machine words
LimbBase == 256 * 256

Rep(n, x) == [i \in 1..n |-> x]

Flatten(ss) ==
  LET F[i \in 0..Len(ss)] == IF i = 0 THEN <<>> ELSE F[i - 1] \o ss[i]
  IN  F[Len(ss)]

\* Mutant of to_le_bytes: to_be_bytes, most significant byte first.
to_be_bytes(v) ==
  Flatten([i \in 1..Len(v) |->
             <<v[Len(v) + 1 - i] \div 256, v[Len(v) + 1 - i] % 256>>])

\* <int>::to_le_bytes on a value held as limbs: each limb gives its low byte,
\* then its high byte.
to_le_bytes(v) == Flatten([i \in 1..Len(v) |-> <<v[i] % 256, v[i] \div 256>>])

\* Mutant of from_le_bytes: from_be_bytes, most significant byte first.
from_be_bytes(b) ==
  [i \in 1..(Len(b) \div 2) |->
     b[Len(b) + 2 - 2 * i] + 256 * b[Len(b) + 1 - 2 * i]]

\* <int>::from_le_bytes: an even number of bytes to limbs.
from_le_bytes(b) == [i \in 1..(Len(b) \div 2) |-> b[2 * i - 1] + 256 * b[2 * i]]

\* A usize (64-bit target) holding the natural number n.
Usize(n) ==
  <<n % LimbBase, (n \div LimbBase) % LimbBase, 0, 0>>

\* a > b on two unsigned words of the same width.
WordGT(a, b) ==
  \E i \in 1..Len(a) :
    /\ a[i] > b[i]
    /\ \A j \in (i + 1)..Len(a) : a[j] = b[j]

\* The natural number a usize holds, for the values that index the buffer.
AsIndex(v) == v[1] + LimbBase * v[2]

\* ------------------------------------------------------------- scalar table
UnsignedNames == {"u8", "u16", "u32", "u64", "u128", "usize"}
SignedNames == {"i8", "i16", "i32", "i64", "i128", "isize"}
FloatNames == {"f32", "f64"}
IntNames == UnsignedNames \cup SignedNames
Names == IntNames \cup FloatNames

\* The $t of each add_num! invocation.
AddType(name) ==
  CASE name \in {"u8", "u16", "u32", "u64", "u128"} -> "u64"
    [] name = "usize" -> "usize"
    [] name \in {"i8", "i16", "i32", "i64", "i128"} -> "i64"
    [] name = "isize" -> "isize"
    [] name = "f32" -> "f32"
    [] name = "f64" -> "f64"

\* The $t of each remove_num! invocation.
RemoveType(name) ==
  CASE name \in {"u8", "u16", "u32", "u64", "u128"} -> "u64"
    [] name = "usize" -> "usize"
    [] name \in {"i8", "i16", "i32", "i64", "i128"} -> "i64"
    [] name = "isize" -> "isize"
    [] name = "f32" -> "f32"
    [] name = "f64" -> "f64"

\* std::mem::size_of::<$t>() on a 64-bit target.
size_of(t) == IF t = "f32" THEN 4 ELSE 8

\* ------------------------------------------------------------------ strings
\* char::encode_utf8 of one Unicode scalar value.
encode_utf8(cp) ==
  IF cp < 128 THEN <<cp>>
  ELSE IF cp < 2048 THEN <<192 + (cp \div 64), 128 + (cp % 64)>>
  ELSE IF cp < 65536
    THEN <<224 + (cp \div 4096), 128 + ((cp \div 64) % 64), 128 + (cp % 64)>>
  ELSE <<240 + (cp \div 262144), 128 + ((cp \div 4096) % 64),
         128 + ((cp \div 64) % 64), 128 + (cp % 64)>>

\* String::into_bytes: the UTF-8 bytes of the string.
into_bytes(s) == Flatten([i \in 1..Len(s) |-> encode_utf8(s[i])])

IsCont(x) == x \in 128..191

\* Number of bytes of the well-formed UTF-8 sequence starting at b[i], or 0.
SeqLen(b, i) ==
  LET n == Len(b)
      b0 == b[i]
      b1 == IF i + 1 <= n THEN b[i + 1] ELSE 0
      b2 == IF i + 2 <= n THEN b[i + 2] ELSE 0
      b3 == IF i + 3 <= n THEN b[i + 3] ELSE 0
  IN  IF b0 < 128 THEN 1
      ELSE IF b0 \in 194..223 THEN (IF IsCont(b1) THEN 2 ELSE 0)
      ELSE IF b0 = 224 THEN (IF b1 \in 160..191 /\ IsCont(b2) THEN 3 ELSE 0)
      ELSE IF b0 = 237 THEN (IF b1 \in 128..159 /\ IsCont(b2) THEN 3 ELSE 0)
      ELSE IF b0 \in 225..239 THEN (IF IsCont(b1) /\ IsCont(b2) THEN 3 ELSE 0)
      ELSE IF b0 = 240
        THEN (IF b1 \in 144..191 /\ IsCont(b2) /\ IsCont(b3) THEN 4 ELSE 0)
      ELSE IF b0 = 244
        THEN (IF b1 \in 128..143 /\ IsCont(b2) /\ IsCont(b3) THEN 4 ELSE 0)
      ELSE IF b0 \in 241..243
        THEN (IF IsCont(b1) /\ IsCont(b2) /\ IsCont(b3) THEN 4 ELSE 0)
      ELSE 0

\* The scalar value of the well-formed k-byte sequence starting at b[i].
DecodeAt(b, i, k) ==
  CASE k = 1 -> b[i]
    [] k = 2 -> (b[i] - 192) * 64 + (b[i + 1] - 128)
    [] k = 3 -> (b[i] - 224) * 4096 + (b[i + 1] - 128) * 64 + (b[i + 2] - 128)
    [] k = 4 -> (b[i] - 240) * 262144 + (b[i + 1] - 128) * 4096
                + (b[i + 2] - 128) * 64 + (b[i + 3] - 128)

RECURSIVE Utf8From(_, _)
Utf8From(b, i) ==
  IF i > Len(b) THEN [ok |-> TRUE, value |-> <<>>]
  ELSE LET k == SeqLen(b, i)
       IN  IF k = 0 THEN [ok |-> FALSE, value |-> <<>>]
           ELSE LET rest == Utf8From(b, i + k)
                IN  IF rest.ok
                      THEN [ok |-> TRUE, value |-> <<DecodeAt(b, i, k)>> \o rest.value]
                      ELSE rest

\* String::from_utf8: Ok(the string) or Err(FromUtf8Error).
from_utf8(b) == Utf8From(b, 1)

\* The caller's target type T: String itself, or a type whose TryFrom<String>
\* rejects the empty string.
TargetTypes == {"String", "NonEmpty"}

try_from(T, s) == IF T = "NonEmpty" /\ s = <<>> THEN [ok |-> FALSE] ELSE [ok |-> TRUE]

\* ------------------------------------------------------------------ results
NoValue == <<>>
Unit == [kind |-> "Unit", value |-> NoValue, expected |-> NoValue, actual |-> NoValue]
Ok(v) == [kind |-> "Ok", value |-> v, expected |-> NoValue, actual |-> NoValue]
UnexpectedByteCount(e, a) ==
  [kind |-> "UnexpectedByteCount", value |-> NoValue, expected |-> e, actual |-> a]
InvalidString == [kind |-> "InvalidString", value |-> NoValue, expected |-> NoValue, actual |-> NoValue]
InvalidValue == [kind |-> "InvalidValue", value |-> NoValue, expected |-> NoValue, actual |-> NoValue]
Panic == [kind |-> "Panic", value |-> NoValue, expected |-> NoValue, actual |-> NoValue]

Out(b, r) == [buffer |-> b, result |-> r]

\* Mutant of SplitOff: the returned part starts one byte late.
SplitOffLate(b, at) == SubSeq(b, at + 2, Len(b))

\* Vec::split_off(at): the vector keeps [0, at), the returned one is [at, len).
SplitKeep(b, at) == SubSeq(b, 1, at)
SplitOff(b, at) == SubSeq(b, at + 1, Len(b))

\* --------------------------------------------------------------- operations
\* The value that reaches serialize_<name>: its parameter is `value: $t`, so an
\* integer the caller holds at up to 128 bits arrives as the low 64 bits
\* (`as $t`); a float arrives as its own bit pattern.
AsParam(name, x) ==
  IF name \in FloatNames THEN x ELSE SubSeq(x, 1, size_of(AddType(name)) \div 2)

\* serialize_<name>(value, buffer): push each byte of value.to_le_bytes().
add_num(name, value, buf) == buf \o to_le_bytes(value)

\* Mutant of remove_num: the bytes are taken before the length is checked, so a
\* short buffer is left empty.
remove_num_drained(name, buf) ==
  LET t_len == size_of(RemoveType(name))
  IN  IF t_len > Len(buf)
        THEN Out(<<>>, UnexpectedByteCount(Usize(t_len), Usize(Len(buf))))
        ELSE Out(SplitOff(buf, t_len), Ok(from_le_bytes(SplitKeep(buf, t_len))))

\* deserialize_<name>(buffer).
remove_num(name, buf) ==
  LET t_len == size_of(RemoveType(name))
  IN  IF t_len > Len(buf)
        THEN Out(buf, UnexpectedByteCount(Usize(t_len), Usize(Len(buf))))
        ELSE LET remaining_bytes == SplitOff(buf, t_len)
                 result == from_le_bytes(SplitKeep(buf, t_len))
             IN  Out(remaining_bytes, Ok(result))

deserialize_usize(buf) == remove_num("usize", buf)

\* Mutant of serialize_string: the prefix counts chars, not bytes.
serialize_string_chars(s, buf) ==
  (buf \o to_le_bytes(Usize(Len(s)))) \o into_bytes(s)

\* serialize_string(value, buffer).
serialize_string(s, buf) ==
  LET value == into_bytes(s)
  IN  (buf \o to_le_bytes(Usize(Len(value)))) \o value

\* Mutant of deserialize_string: a declared length that exceeds the buffer
\* puts the prefix back.
deserialize_string_rollback(T, buf) ==
  LET r == deserialize_usize(buf)
  IN  IF r.result.kind # "Ok" THEN r
      ELSE LET value_size == r.result.value
               b1 == r.buffer
           IN  IF WordGT(value_size, Usize(Len(b1)))
                 THEN Out(buf, UnexpectedByteCount(value_size, Usize(Len(b1))))
                 ELSE LET tmp == SplitOff(b1, AsIndex(value_size))
                          result == from_utf8(SplitKeep(b1, AsIndex(value_size)))
                      IN  IF ~result.ok THEN Out(tmp, InvalidString)
                          ELSE IF try_from(T, result.value).ok
                            THEN Out(tmp, Ok(result.value))
                            ELSE Out(tmp, InvalidValue)

\* Mutant of deserialize_string: invalid UTF-8 returns before `*buffer = tmp`,
\* leaving the payload in the buffer and losing the rest.
deserialize_string_early(T, buf) ==
  LET r == deserialize_usize(buf)
  IN  IF r.result.kind # "Ok" THEN r
      ELSE LET value_size == r.result.value
               b1 == r.buffer
           IN  IF WordGT(value_size, Usize(Len(b1)))
                 THEN Out(b1, UnexpectedByteCount(value_size, Usize(Len(b1))))
                 ELSE LET tmp == SplitOff(b1, AsIndex(value_size))
                          result == from_utf8(SplitKeep(b1, AsIndex(value_size)))
                      IN  IF ~result.ok
                            THEN Out(SplitKeep(b1, AsIndex(value_size)), InvalidString)
                          ELSE IF try_from(T, result.value).ok
                            THEN Out(tmp, Ok(result.value))
                            ELSE Out(tmp, InvalidValue)

\* deserialize_string::<T>(buffer).
deserialize_string(T, buf) ==
  LET r == deserialize_usize(buf)
  IN  IF r.result.kind # "Ok" THEN r
      ELSE LET value_size == r.result.value
               b1 == r.buffer
           IN  IF WordGT(value_size, Usize(Len(b1)))
                 THEN Out(b1, UnexpectedByteCount(value_size, Usize(Len(b1))))
                 ELSE LET tmp == SplitOff(b1, AsIndex(value_size))
                          result == from_utf8(SplitKeep(b1, AsIndex(value_size)))
                      IN  IF ~result.ok THEN Out(tmp, InvalidString)
                          ELSE IF try_from(T, result.value).ok
                            THEN Out(tmp, Ok(result.value))
                            ELSE Out(tmp, InvalidValue)

\* serialize_vec(value, buffer).
serialize_vec(v, buf) ==
  LET Items[i \in 0..Len(v)] ==
        IF i = 0 THEN buf \o to_le_bytes(Usize(Len(v)))
        ELSE serialize_string(v[i], Items[i - 1])
  IN  Items[Len(v)]

\* Vec::<T>::with_capacity(n) panics with "capacity overflow" when n elements
\* of T (24 bytes for String and for a wrapper of it) exceed isize::MAX bytes:
\* n > 0x0555_5555_5555_5555.
\* An allocation that passes this check is taken to succeed.
MaxCapacity == <<21845, 21845, 21845, 1365>>

CapacityOverflow(n) == WordGT(n, MaxCapacity)

\* Mutant of VecLoop: each element is put in front of the ones before it.
RECURSIVE VecLoopReversed(_, _, _, _, _)
VecLoopReversed(T, buf, num_items, i, acc) ==
  IF ~WordGT(num_items, Usize(i)) THEN Out(buf, Ok(acc))
  ELSE LET r == deserialize_string(T, buf)
       IN  IF r.result.kind # "Ok" THEN r
           ELSE VecLoopReversed(T, r.buffer, num_items, i + 1,
                                <<r.result.value>> \o acc)

\* The `for _ in 0..num_items` loop of deserialize_vec, from iteration i on.
RECURSIVE VecLoop(_, _, _, _, _)
VecLoop(T, buf, num_items, i, acc) ==
  IF ~WordGT(num_items, Usize(i)) THEN Out(buf, Ok(acc))
  ELSE LET r == deserialize_string(T, buf)
       IN  IF r.result.kind # "Ok" THEN r
           ELSE VecLoop(T, r.buffer, num_items, i + 1, Append(acc, r.result.value))

\* deserialize_vec::<T>(buffer).
deserialize_vec(T, buf) ==
  LET r == deserialize_usize(buf)
  IN  IF r.result.kind # "Ok" THEN r
      ELSE IF CapacityOverflow(r.result.value) THEN Out(r.buffer, Panic)
      ELSE VecLoop(T, r.buffer, r.result.value, 0, <<>>)

\* Mutant of Insert: every element goes to the front.
InsertFront(b, index, x) == <<x>> \o b

\* Vec::insert(index, element), index counted from 0.
Insert(b, index, x) == (SubSeq(b, 1, index) \o <<x>>) \o SubSeq(b, index + 1, Len(b))

\* finalize_serialization(buffer).
finalize_serialization(buf) ==
  LET bytes == to_le_bytes(Usize(Len(buf)))
      Step[k \in 0..Len(bytes)] ==
        IF k = 0 THEN buf ELSE Insert(Step[k - 1], k - 1, bytes[k])
  IN  Step[Len(bytes)]

\* ------------------------------------------------------------------- inputs
Z(n) == Rep(n, 0)
F(n) == Rep(n, 65535)

\* Values a caller holds for serialize_<name>: integers as 128-bit two's
\* complement (8 limbs), among them 0 and the least and greatest value of the
\* named width; floats as bit patterns (0.0, -0.0, 1.0, NaN).
CallerValues(name) ==
  CASE name = "u8" -> {Z(8), <<255>> \o Z(7), <<42>> \o Z(7)}
    [] name = "u16" -> {Z(8), <<65535>> \o Z(7)}
    [] name = "u32" -> {Z(8), F(2) \o Z(6), <<42>> \o Z(7)}
    [] name \in {"u64", "usize"} -> {Z(8), F(4) \o Z(4)}
    [] name = "u128" -> {Z(8), F(4) \o Z(4), Z(4) \o (<<1>> \o Z(3)), F(8)}
    [] name = "i8" -> {Z(8), <<65408>> \o F(7), <<127>> \o Z(7)}
    [] name = "i16" -> {Z(8), <<32768>> \o F(7), <<32767>> \o Z(7)}
    [] name = "i32" -> {Z(8), <<0, 32768>> \o F(6), <<65535, 32767>> \o Z(6)}
    [] name \in {"i64", "isize"} ->
         {Z(8), (Z(3) \o <<32768>>) \o F(4), (F(3) \o <<32767>>) \o Z(4), F(8)}
    [] name = "i128" -> {Z(8), Z(7) \o <<32768>>, F(7) \o <<32767>>, F(8)}
    [] name = "f32" -> {<<0, 0>>, <<0, 32768>>, <<0, 16256>>, <<0, 32704>>}
    [] name = "f64" -> {Z(4), Z(3) \o <<32768>>, Z(3) \o <<16368>>, Z(3) \o <<32760>>}

\* Strings: "", "A", "Hi", U+00E9, U+20AC, U+1F600.
Strings == {<<>>, <<65>>, <<72, 105>>, <<233>>, <<8364>>, <<128512>>}

Vecs == {<<>>, << <<>> >>, << <<65>> >>, << <<>>, <<>> >>, << <<65>>, <<>> >>,
         << <<233>> >>}

Le8(n) == <<n>> \o Z(7)

\* Bytes a caller may place after a prefix: valid and invalid UTF-8.
RawTails ==
  {<<>>, <<65>>, <<255>>, <<195>>, <<195, 169>>, <<65, 255>>, <<65, 66, 67>>,
   <<226, 130, 172>>, <<237, 160, 128>>}

\* Length and count prefixes: small ones, usize::MAX, 2^32, and the two values
\* around the capacity limit of Vec::with_capacity.
Prefixes ==
  {Le8(n) : n \in 0..3}
    \cup {Rep(8, 255), <<0, 0, 0, 0, 1, 0, 0, 0>>,
          <<85, 85, 85, 85, 85, 85, 85, 5>>, <<86, 85, 85, 85, 85, 85, 85, 5>>}

\* Buffers a caller creates: the empty one (k = 0) and pre-populated ones.
LoadBuffers ==
  {Rep(k, 255) : k \in 0..7} \cup {Rep(k, 0) : k \in 1..7}
    \cup {p \o t : p \in Prefixes, t \in RawTails}
    \cup {(c \o p) \o t : c \in {Le8(1), Le8(2), Le8(3)},
                          p \in {Le8(0), Le8(1), Le8(2), Le8(9)}, t \in RawTails}

\* ------------------------------------------------------------ state machine
\* last: the latest call on the buffer: the operation, its name (the scalar
\* name or the target type T), its argument, the buffer before it, its result,
\* and prior: the call before it when that call produced, on an empty buffer,
\* what this one reads back (history, for the round trips).
NoCall == [op |-> "none", name |-> "", arg |-> <<>>, pre |-> <<>>]

Call(op, name, arg, pre, result, prior) ==
  [op |-> op, name |-> name, arg |-> arg, pre |-> pre, result |-> result,
   prior |-> prior]

Pairs(op, name) ==
  \/ /\ last.pre = <<>>
     /\ \/ last.op = "serialize_num" /\ op = "deserialize_num" /\ name = last.name
        \/ last.op = "serialize_string" /\ op = "deserialize_string"
        \/ last.op = "serialize_vec" /\ op = "deserialize_vec"
  \/ last.op = "finalize_serialization" /\ op = "deserialize_num" /\ name = "usize"

Prior(op, name) ==
  IF Pairs(op, name)
    THEN [op |-> last.op, name |-> last.name, arg |-> last.arg, pre |-> last.pre]
    ELSE NoCall

\* let mut buffer = Vec::new();  or  let mut buffer = [...].to_vec();
Init ==
  /\ buffer \in LoadBuffers
  /\ last = Call("new", "", <<>>, <<>>, Unit, NoCall)

SerializeNum(name, x) ==
  /\ Len(buffer) <= MaxPending
  /\ buffer' = add_num(name, AsParam(name, x), buffer)
  /\ last' = Call("serialize_num", name, x, buffer, Unit, NoCall)

DeserializeNum(name) ==
  LET out == remove_num(name, buffer)
  IN  /\ buffer' = out.buffer
      /\ last' = Call("deserialize_num", name, <<>>, buffer, out.result,
                      Prior("deserialize_num", name))

SerializeString(s) ==
  /\ Len(buffer) <= MaxPending
  /\ buffer' = serialize_string(s, buffer)
  /\ last' = Call("serialize_string", "", s, buffer, Unit, NoCall)

DeserializeString(T) ==
  LET out == deserialize_string(T, buffer)
  IN  /\ buffer' = out.buffer
      /\ last' = Call("deserialize_string", T, <<>>, buffer, out.result,
                      Prior("deserialize_string", T))

SerializeVec(v) ==
  /\ Len(buffer) <= MaxPending
  /\ buffer' = serialize_vec(v, buffer)
  /\ last' = Call("serialize_vec", "", v, buffer, Unit, NoCall)

DeserializeVec(T) ==
  LET out == deserialize_vec(T, buffer)
  IN  /\ buffer' = out.buffer
      /\ last' = Call("deserialize_vec", T, <<>>, buffer, out.result,
                      Prior("deserialize_vec", T))

FinalizeSerialization ==
  /\ Len(buffer) <= MaxPending
  /\ buffer' = finalize_serialization(buffer)
  /\ last' = Call("finalize_serialization", "", <<>>, buffer, Unit, NoCall)

Next ==
  \/ \E name \in Names : \E x \in CallerValues(name) : SerializeNum(name, x)
  \/ \E name \in Names : DeserializeNum(name)
  \/ \E s \in Strings : SerializeString(s)
  \/ \E T \in TargetTypes : DeserializeString(T)
  \/ \E v \in Vecs : SerializeVec(v)
  \/ \E T \in TargetTypes : DeserializeVec(T)
  \/ FinalizeSerialization

Spec == Init /\ [][Next]_vars

\* ------------------------------------------------------------------- claims
\* What the claims expect, written out independently of the operators above.
DeserializeOps == {"deserialize_num", "deserialize_string", "deserialize_vec"}

\* The usize n (n < 65536) as a word.
Word(n) == <<n, 0, 0, 0>>

\* Bytes of the type a scalar name carries on the wire.
CarrierBytes(name) == IF name = "f32" THEN 4 ELSE 8

\* Bytes of the type a scalar name names.
NamedBytes(name) ==
  CASE name \in {"u8", "i8"} -> 1
    [] name \in {"u16", "i16"} -> 2
    [] name \in {"u32", "i32", "f32"} -> 4
    [] name \in {"u64", "i64", "f64", "usize", "isize"} -> 8
    [] name \in {"u128", "i128"} -> 16

Drop(b, n) == SubSeq(b, n + 1, Len(b))

\* C1 (as claimed, W the width the operation is named after): deserialize_<name>
\* on fewer than W bytes returns UnexpectedByteCount(W, len) and leaves the
\* buffer as it was.
C1_TruncationNamedWidth ==
  (last.op = "deserialize_num" /\ Len(last.pre) < NamedBytes(last.name))
    => /\ last.result = UnexpectedByteCount(Word(NamedBytes(last.name)),
                                            Word(Len(last.pre)))
       /\ buffer = last.pre

\* C1 (amended, W the size of the carried type: 8, and 4 for f32):
\* deserialize_<name> on fewer than W bytes returns UnexpectedByteCount(W, len)
\* and leaves the buffer byte for byte as it was.
C1_Truncation ==
  (last.op = "deserialize_num" /\ Len(last.pre) < CarrierBytes(last.name))
    => /\ last.result = UnexpectedByteCount(Word(CarrierBytes(last.name)),
                                            Word(Len(last.pre)))
       /\ buffer = last.pre

C1_Witness ==
  /\ last.op = "deserialize_num"
  /\ last.name = "u8"
  /\ Len(last.pre) = 3
  /\ last.result.kind = "UnexpectedByteCount"

\* The encoding of the value a successful deserialize call returned.
Reencoded ==
  CASE last.op = "deserialize_num" -> add_num(last.name, last.result.value, <<>>)
    [] last.op = "deserialize_string" -> serialize_string(last.result.value, <<>>)
    [] last.op = "deserialize_vec" -> serialize_vec(last.result.value, <<>>)

\* C2: after a successful deserialize call the buffer before it is the encoding
\* E of the returned value followed by the buffer after it: exactly E was taken
\* from the front and the rest R is left as it was.
C2_Leftover ==
  (last.op \in DeserializeOps /\ last.result.kind = "Ok")
    => last.pre = Reencoded \o buffer

C2_Witness ==
  /\ last.op = "deserialize_string"
  /\ last.result.kind = "Ok"
  /\ Len(last.result.value) > 0
  /\ buffer # <<>>

\* The mathematical integer (128-bit two's complement) a returned 64-bit value
\* stands for: sign-extended for the signed names, zero-extended otherwise.
Widen(name, v) ==
  v \o Rep(4, IF name \in SignedNames /\ v[4] >= 32768 THEN 65535 ELSE 0)

\* x, a 128-bit value, lies in the range of the 64-bit type carrying `name`.
InCarrierRange(name, x) == Widen(name, SubSeq(x, 1, 4)) = x

RoundTripNum ==
  /\ last.result.kind = "Ok"
  /\ Widen(last.name, last.result.value) = last.prior.arg
  /\ buffer = <<>>

\* C3 (as claimed): for every integer name and every value x of the named
\* width, serialize_<name>(x) into an empty buffer followed by
\* deserialize_<name> returns Ok(x) and leaves the buffer empty.
C3_RoundTripNamedWidth ==
  (last.op = "deserialize_num" /\ last.name \in IntNames
     /\ last.prior.op = "serialize_num")
    => RoundTripNum

\* C3 (amended): for every integer name and every value x of the named width
\* that the 64-bit parameter of serialize_<name> can hold (every x of the 8, 16,
\* 32, 64-bit and pointer-sized names; of the 128-bit names those within the
\* 64-bit range), serialize_<name>(x) into an empty buffer followed by
\* deserialize_<name> returns Ok(x) and leaves the buffer empty.
C3_RoundTrip ==
  (last.op = "deserialize_num" /\ last.name \in IntNames
     /\ last.prior.op = "serialize_num"
     /\ InCarrierRange(last.name, last.prior.arg))
    => RoundTripNum

\* The round trip of i8's minimum, -128.
C3_Witness ==
  /\ last.op = "deserialize_num"
  /\ last.name = "i8"
  /\ last.prior.op = "serialize_num"
  /\ last.prior.arg = <<65408>> \o F(7)
  /\ last.result.kind = "Ok"

\* UTF-8 bytes of the sample strings, from the Unicode tables.
Utf8Of(s) ==
  CASE s = <<>> -> <<>>
    [] s = <<65>> -> <<65>>
    [] s = <<72, 105>> -> <<72, 105>>
    [] s = <<233>> -> <<195, 169>>
    [] s = <<8364>> -> <<226, 130, 172>>
    [] s = <<128512>> -> <<240, 159, 152, 128>>

StringLayout(s) == Le8(Len(Utf8Of(s))) \o Utf8Of(s)

\* C4: serialize_string(s) into an empty buffer leaves the 8-byte little-endian
\* byte length of s followed by the UTF-8 bytes of s, and deserialize_string
\* (to String) on that buffer returns Ok(s) and leaves the buffer empty.
C4_StringRoundTrip ==
  /\ (last.op = "serialize_string" /\ last.pre = <<>>)
       => buffer = StringLayout(last.arg)
  /\ (last.op = "deserialize_string" /\ last.name = "String"
        /\ last.prior.op = "serialize_string")
       => (last.result = Ok(last.prior.arg) /\ buffer = <<>>)

\* The round trip of the three-byte code point U+20AC.
C4_Witness ==
  /\ last.op = "deserialize_string"
  /\ last.name = "String"
  /\ last.prior.op = "serialize_string"
  /\ last.prior.arg = <<8364>>
  /\ last.result.kind = "Ok"

VecLayout(v) ==
  Le8(Len(v)) \o Flatten([i \in 1..Len(v) |-> StringLayout(v[i])])

\* C5: serialize_vec(v) into an empty buffer leaves the 8-byte little-endian
\* element count followed by the string encoding of each element in order, and
\* deserialize_vec (to String) on that buffer returns Ok(v), elements in the
\* same order, and leaves the buffer empty.
C5_VecRoundTrip ==
  /\ (last.op = "serialize_vec" /\ last.pre = <<>>)
       => buffer = VecLayout(last.arg)
  /\ (last.op = "deserialize_vec" /\ last.name = "String"
        /\ last.prior.op = "serialize_vec")
       => (last.result = Ok(last.prior.arg) /\ buffer = <<>>)

\* The round trip of ["A", ""].
C5_Witness ==
  /\ last.op = "deserialize_vec"
  /\ last.name = "String"
  /\ last.prior.op = "serialize_vec"
  /\ last.prior.arg = << <<65>>, <<>> >>
  /\ last.result.kind = "Ok"

\* Byte k (from 1) of the little-endian representation of a value.
LeByte(v, k) ==
  IF k % 2 = 1 THEN v[(k + 1) \div 2] % 256 ELSE (v[k \div 2] \div 256) % 256

Grown(n) ==
  /\ Len(buffer) = Len(last.pre) + n
  /\ SubSeq(buffer, 1, Len(last.pre)) = last.pre
  /\ \A k \in 1..n : buffer[Len(last.pre) + k] = LeByte(last.arg, k)

\* C6 (as claimed): serialize_<name> grows the buffer by the byte size of the
\* named type (1, 2, 4, 8 or 16), appending the value's little-endian bytes at
\* that width and leaving the earlier bytes as they were.
C6_GrowthNamedWidth ==
  last.op = "serialize_num" => Grown(NamedBytes(last.name))

\* C6 (amended): serialize_<name> grows the buffer by the byte size of the type
\* the name carries (8 for every integer name and f64, 4 for f32), appending the
\* little-endian bytes of the value at that width and leaving the earlier bytes
\* as they were.
C6_Growth ==
  last.op = "serialize_num" => Grown(CarrierBytes(last.name))

\* serialize_u8(255) on a buffer that already holds bytes.
C6_Witness ==
  /\ last.op = "serialize_num"
  /\ last.name = "u8"
  /\ last.arg = <<255>> \o Z(7)
  /\ last.pre # <<>>
  /\ Len(buffer) = Len(last.pre) + 8

\* The length a string or count prefix declares, read from the first 8 bytes.
Declared(b) == [i \in 1..4 |-> b[2 * i - 1] + 256 * b[2 * i]]

\* The prefix of b declares more than the m bytes that follow it (m < 65536).
DeclaresMoreThan(b, m) ==
  \/ \E k \in 3..8 : b[k] # 0
  \/ b[1] + 256 * b[2] > m

\* C7: deserialize_string on at least 8 bytes whose prefix declares L bytes while
\* only M < L follow returns UnexpectedByteCount(L, M) and leaves exactly the M
\* bytes that followed the prefix.
C7_DeclaredTooLong ==
  (last.op = "deserialize_string" /\ Len(last.pre) >= 8
     /\ DeclaresMoreThan(last.pre, Len(last.pre) - 8))
    => /\ last.result = UnexpectedByteCount(Declared(last.pre),
                                            Word(Len(last.pre) - 8))
       /\ buffer = Drop(last.pre, 8)

\* A prefix declaring 3 bytes with 2 behind it.
C7_Witness ==
  /\ last.op = "deserialize_string"
  /\ last.pre = Le8(3) \o <<195, 169>>
  /\ last.result.kind = "UnexpectedByteCount"
  /\ buffer = <<195, 169>>

\* C8: finalize_serialization never fails and leaves the 8-byte little-endian
\* length n of the buffer followed by the buffer's bytes in order (8 bytes more),
\* also for the empty buffer; a following deserialize_usize returns n and leaves
\* the original buffer.
C8_Finalize ==
  /\ last.op = "finalize_serialization"
       => /\ last.result = Unit
          /\ buffer = Le8(Len(last.pre)) \o last.pre
          /\ Len(buffer) = Len(last.pre) + 8
  /\ (last.op = "deserialize_num" /\ last.prior.op = "finalize_serialization")
       => /\ last.result = Ok(Word(Len(last.prior.pre)))
          /\ buffer = last.prior.pre

\* deserialize_usize after finalizing a 3-byte buffer.
C8_Witness ==
  /\ last.op = "deserialize_num"
  /\ last.prior.op = "finalize_serialization"
  /\ Len(last.prior.pre) = 3
  /\ last.result.kind = "Ok"

\* C9: every deserialize call returns Ok or one of the three errors; none
\* panics or aborts, whatever the buffer holds.
C9_NoPanic ==
  last.op \in DeserializeOps
    => last.result.kind \in {"Ok", "UnexpectedByteCount", "InvalidString",
                             "InvalidValue"}

\* C10 (as claimed): when deserialize_string fails, the buffer is untouched if it
\* was shorter than the prefix, and otherwise is the original buffer without the
\* 8 prefix bytes and the declared payload bytes.
C10_FailureAdvancesPastPayload ==
  (last.op = "deserialize_string" /\ last.result.kind # "Ok")
    => IF Len(last.pre) < 8 THEN buffer = last.pre
       ELSE IF DeclaresMoreThan(last.pre, Len(last.pre) - 8) THEN buffer = <<>>
       ELSE buffer = Drop(last.pre, 8 + last.pre[1] + 256 * last.pre[2])

\* C10 (amended): when deserialize_string fails, the buffer is untouched if it
\* was shorter than the prefix; has lost only the 8 prefix bytes if the declared
\* length exceeds what follows; and has lost the prefix and the declared payload
\* bytes if the failure is InvalidString or InvalidValue.
C10_FailureState ==
  (last.op = "deserialize_string" /\ last.result.kind # "Ok")
    => IF Len(last.pre) < 8
         THEN last.result.kind = "UnexpectedByteCount" /\ buffer = last.pre
       ELSE IF DeclaresMoreThan(last.pre, Len(last.pre) - 8)
         THEN last.result.kind = "UnexpectedByteCount"
              /\ buffer = Drop(last.pre, 8)
       ELSE /\ last.result.kind \in {"InvalidString", "InvalidValue"}
            /\ buffer = Drop(last.pre, 8 + last.pre[1] + 256 * last.pre[2])

\* Invalid UTF-8 in the payload, with bytes behind it.
C10_Witness ==
  /\ last.op = "deserialize_string"
  /\ last.result.kind = "InvalidString"
  /\ buffer # <<>>

====
